---- MODULE Spec2Model ----
(***************************************************************************)
(* Model of the JSON-RPC batch dispatch of reqwest-enum                    *)
(* (reqwest-enum/src/provider.rs, jsonrpc.rs, http.rs, target.rs).         *)
(*                                                                         *)
(* One Provider serves calls of request, request_json, batch and           *)
(* batch_chunk_by.  A call runs synchronously up to its first await; every *)
(* await of the code (send / execute, json, join_all) is a separate step   *)
(* whose outcome is chosen by the environment (transport and remote        *)
(* server).  Spec starts from Provider::default(); SpecProvider starts     *)
(* from any Provider::new / Provider::with_client and follows the          *)
(* request / request_json calls.                                           *)
(***************************************************************************)
EXTENDS Integers, Sequences, FiniteSets, TLC

----------------------------------------------------------------------------
(* Bounds of the model *)

\* longest descriptor sequence handed to a call
MaxLen == 3
\* largest chunk_size handed to batch_chunk_by (0 is always included)
MaxChunkSize == 3

----------------------------------------------------------------------------
(* Descriptors (impl Target + JsonRpcTarget) *)

\* base_url() and path() of the JSON-RPC descriptors (EthereumRPC)
EthereumBaseUrl == "https://ethereum-rpc.publicnode.com"
EthereumTarget(method_name, bodyOk) ==
    [name |-> method_name, method_name |-> method_name, bodyOk |-> bodyOk,
     base_url |-> EthereumBaseUrl, path |-> "/"]

\* Three descriptors: two whose Target::body() succeeds, one whose body()
\* fails (Target::body returns Result<HTTPBody, Error>).
Targets ==
    { EthereumTarget("eth_chainId", TRUE),
      EthereumTarget("eth_gasPrice", TRUE),
      EthereumTarget("eth_call", FALSE) }

\* the plain HTTP descriptors of the provider tests (enum HttpBin)
HttpBinTarget(name, path) ==
    [name |-> name, method_name |-> "", bodyOk |-> TRUE,
     base_url |-> "https://httpbin.org", path |-> path]
HttpBinTargets ==
    { HttpBinTarget("Get", "/get?ts=1728044812"),
      HttpBinTarget("Post", "/post"),
      HttpBinTarget("Bearer", "/bearer"),
      HttpBinTarget("HeaderAuth", "/headers") }

\* the descriptors handed to request / request_json
RequestTargets == Targets \cup HttpBinTargets

RECURSIVE SeqsUpTo(_, _)
SeqsUpTo(S, n) ==
    IF n = 0 THEN { <<>> }
    ELSE LET shorter == SeqsUpTo(S, n - 1)
         IN  shorter \cup { Append(s, x) : s \in { t \in shorter : Len(t) = n - 1 }, x \in S }

TargetSeqs == SeqsUpTo(Targets, MaxLen)
ChunkSizes == 0..MaxChunkSize

Min(a, b) == IF a < b THEN a ELSE b

----------------------------------------------------------------------------
(* State *)

VARIABLES
    provider,      \* struct Provider: its endpoint_fn and its client
    pc,            \* "idle", "built", "join", "batch_exec", "batch_json",
                   \* "request_exec", "request_json_body", "returned"
    op,            \* the call in progress or last returned: "none", "request",
                   \* "request_json", "batch", "batch_chunk_by"
    targets,       \* argument targets of the call
    chunk_size,    \* argument chunk_size of the call (0 for batch)
    rpc_requests,  \* the request bodies built by the call, one per exchange
    tasks,         \* one record per exchange: its state, response status, output
    out_of_order,  \* history: some exchange completed before one of lower index
    exchanges,     \* number of transport exchanges started by the call
    ret            \* value returned by the call

vars == <<provider, pc, op, targets, chunk_size, rpc_requests, tasks, out_of_order,
          exchanges, ret>>

----------------------------------------------------------------------------
(* jsonrpc.rs *)

\* JsonRpcRequest::new
JsonRpcRequest_new(method, params, id) ==
    [jsonrpc |-> "2.0", id |-> id, method |-> method, params |-> params]

\* JsonRpcError literals and conversions
\* a message is the pair <<format text, formatted argument>>
NoError == [code |-> 0, message |-> <<"", "">>]
InvalidRequest == [code |-> -32600, message |-> <<"Invalid Request", "">>]

\* impl From<reqwest::Error> for JsonRpcError; e is the reqwest error's text
From_reqwest_Error(e) ==
    [code |-> -32603, message |-> <<"Internal error", e>>]

\* impl From<crate::Error> for JsonRpcError
From_crate_Error(err) ==
    IF err.kind = "Reqwest" THEN From_reqwest_Error(err.text)
    ELSE [code |-> -32603, message |-> <<"Serialization/deserialization error", err.text>>]

JsonRpcResult_deserialize_value_only(obj) ==
    IF obj.hasResult
    THEN [ok |-> TRUE,
          val |-> [tag |-> "Value", id |-> obj.id, jsonrpc |-> obj.jsonrpc,
                   result |-> obj.result, error |-> NoError]]
    ELSE [ok |-> FALSE, val |-> <<>>]

\* serde untagged enum JsonRpcResult<T>: Value is tried first, then Error;
\* an object matching neither makes the decode fail.
JsonRpcResult_deserialize(obj) ==
    IF obj.hasResult
    THEN [ok |-> TRUE,
          val |-> [tag |-> "Value", id |-> obj.id, jsonrpc |-> obj.jsonrpc,
                   result |-> obj.result, error |-> NoError]]
    ELSE IF obj.hasError
    THEN [ok |-> TRUE,
          val |-> [tag |-> "Error", id |-> obj.id, jsonrpc |-> obj.jsonrpc,
                   result |-> "", error |-> obj.error]]
    ELSE [ok |-> FALSE, val |-> <<>>]

\* Response::json::<Vec<JsonRpcResult<U>>>
\* (bytes.json tells whether the bytes are a JSON array at all)
Response_json(bytes) ==
    IF ~bytes.json
    THEN [ok |-> FALSE, val |-> <<>>, err |-> "error decoding response body"]
    ELSE IF \E j \in 1..Len(bytes.items) : ~JsonRpcResult_deserialize(bytes.items[j]).ok
    THEN [ok |-> FALSE, val |-> <<>>, err |-> "error decoding response body"]
    ELSE [ok |-> TRUE, err |-> "",
          val |-> [j \in 1..Len(bytes.items) |-> JsonRpcResult_deserialize(bytes.items[j]).val]]

----------------------------------------------------------------------------
(* http.rs / provider.rs helpers *)

\* HTTPBody::from_array: serde_json serialisation of the envelope list
HTTPBody_from_array(array) == [ok |-> TRUE, inner |-> array]

\* endpoint closures a Provider can be given (type EndpointFn): the closure
\* of test_test_endpoint_closure and one that keeps the path of the target
EndpointFns == { "plain_httpbin", "local_node" }
endpoint_fn_call(func, target) ==
    CASE func = "plain_httpbin" -> "http://httpbin.org"
      [] func = "local_node"    -> "http://localhost:8545" \o target.path

request_url_ignoring_endpoint_fn(target) == target.base_url \o target.path

\* Provider::request_url
request_url(target) ==
    IF provider.endpoint_fn # "None"
    THEN endpoint_fn_call(provider.endpoint_fn, target)
    ELSE target.base_url \o target.path

\* Provider::request_builder: the builder belongs to a fresh temp_client; it
\* fails when the target's body() fails
request_builder(target) ==
    IF target.bodyOk
    THEN [ok |-> TRUE, err |-> [kind |-> "", text |-> ""],
          url |-> request_url(target), client |-> "temp_client"]
    ELSE [ok |-> FALSE, err |-> [kind |-> "SerdeJson", text |-> "body"],
          url |-> "", client |-> ""]

RECURSIVE chunks_exact(_, _)
chunks_exact(s, c) ==
    IF Len(s) < c THEN <<>>
    ELSE <<SubSeq(s, 1, c)>> \o chunks_exact(SubSeq(s, c + 1, Len(s)), c)

\* slice::chunks(chunk_size) as used by batch_chunk_by
RECURSIVE chunks(_, _)
chunks(s, c) ==
    IF Len(s) = 0 THEN <<>>
    ELSE <<SubSeq(s, 1, Min(c, Len(s)))>> \o chunks(SubSeq(s, Min(c, Len(s)) + 1, Len(s)), c)

chunk_request_id_local(chunk_idx, c, k) == k + 1
chunk_request_id_zero_based(chunk_idx, c, k) == chunk_idx * c + k

\* correlation id of position k (0-based) of chunk chunk_idx (0-based)
chunk_request_id(chunk_idx, c, k) == chunk_idx * c + k + 1

\* envelope list of one chunk (inner loop of batch_chunk_by)
chunk_requests(chunk, chunk_idx, c) ==
    [k1 \in 1..Len(chunk) |->
        JsonRpcRequest_new(chunk[k1].method_name, <<>>, chunk_request_id(chunk_idx, c, k1 - 1))]

batch_payload_zero_based(D) ==
    [k1 \in 1..Len(D) |-> JsonRpcRequest_new(D[k1].method_name, <<>>, k1 - 1)]

\* envelope list of batch
batch_payload(D) ==
    [k1 \in 1..Len(D) |-> JsonRpcRequest_new(D[k1].method_name, <<>>, (k1 - 1) + 1)]

build_chunk_requests_first_only(D, c) ==
    LET chunk_targets == chunks(D, c)
    IN  IF ~request_builder(chunk_targets[1][1]).ok
        THEN [ok |-> FALSE, val |-> <<>>,
              err |-> From_crate_Error(request_builder(chunk_targets[1][1]).err)]
        ELSE [ok |-> TRUE, err |-> NoError,
              val |-> [i \in 1..Len(chunk_targets) |->
                         HTTPBody_from_array(chunk_requests(chunk_targets[i], i - 1, c)).inner]]

\* construction loop of batch_chunk_by: the first chunk whose request cannot
\* be built ends the call with its error, otherwise every request is built
build_chunk_requests(D, c) ==
    LET chunk_targets == chunks(D, c)
        bad == { i \in 1..Len(chunk_targets) : ~request_builder(chunk_targets[i][1]).ok }
    IN  IF bad # {}
        THEN [ok |-> FALSE, val |-> <<>>,
              err |-> From_crate_Error(
                         request_builder(chunk_targets[CHOOSE i \in bad : \A j \in bad : i <= j][1]).err)]
        ELSE [ok |-> TRUE, err |-> NoError,
              val |-> [i \in 1..Len(chunk_targets) |->
                         HTTPBody_from_array(chunk_requests(chunk_targets[i], i - 1, c)).inner]]

----------------------------------------------------------------------------
(* Environment: the remote server and the transport *)

\* HTTP statuses a response can carry (one success, one non-success)
Statuses == { 200, 500 }
\* statuses seen by request / request_json: also a 3xx response that is
\* handed to the caller (300 Multiple Choices) and a client error
RequestStatuses == Statuses \cup { 300, 404 }
\* what the server answers to one request envelope
ItemKinds == { "result", "error" }
\* how the server arranges the answers of one exchange
Arrangements == { "inorder", "reversed", "droplast" }

ServerObject(req, kind) ==
    [id |-> req.id, jsonrpc |-> "2.0",
     hasResult |-> (kind = "result"), hasError |-> (kind = "error"),
     result |-> IF kind = "result" THEN req.method ELSE "",
     error |-> IF kind = "error" THEN [code |-> -32601, message |-> <<"Method not found", "">>]
               ELSE NoError]

Reverse(s) == [j \in 1..Len(s) |-> s[Len(s) + 1 - j]]

Arrange(s, a) ==
    CASE a = "inorder"  -> s
      [] a = "reversed" -> Reverse(s)
      [] a = "droplast" -> SubSeq(s, 1, Len(s) - 1)

\* the response bodies the server may send for the envelope list reqs:
\* bytes that are no JSON array, or an array of answers
ServerBodies(reqs) ==
    { [json |-> FALSE, items |-> <<>>] } \cup
    { [json |-> TRUE,
       items |-> Arrange([j \in 1..Len(reqs) |-> ServerObject(reqs[j], kinds[j])], a)] :
        kinds \in [1..Len(reqs) -> ItemKinds], a \in Arrangements }

----------------------------------------------------------------------------
(* Values of the state *)

NoRet == [kind |-> "None", val |-> <<>>, err |-> NoError]
Ok(v) == [kind |-> "Ok", val |-> v, err |-> NoError]
Err(e) == [kind |-> "Err", val |-> <<>>, err |-> e]

NoBytes == [json |-> FALSE, items |-> <<>>]
\* url and builder_client: the RequestBuilder of the exchange; client: the
\* client that executes the exchange once it is started
PlannedTask ==
    [st |-> "Planned", status |-> 0, bytes |-> NoBytes, body |-> <<>>, err |-> NoError,
     url |-> "", builder_client |-> "", client |-> ""]
BuiltTask(rb) == [PlannedTask EXCEPT !.url = rb.url, !.builder_client = rb.client]

\* Provider::new, Provider::with_client, Provider::default
Provider_new(endpoint_fn) == [endpoint_fn |-> endpoint_fn, client |-> "Client::new"]
Provider_with_client(client, endpoint_fn) == [endpoint_fn |-> endpoint_fn, client |-> client]
Provider_default == [endpoint_fn |-> "None", client |-> "Client::new"]

NoCall ==
    /\ pc = "idle"
    /\ op = "none"
    /\ targets = <<>>
    /\ chunk_size = 0
    /\ rpc_requests = <<>>
    /\ tasks = <<>>
    /\ out_of_order = FALSE
    /\ exchanges = 0
    /\ ret = NoRet

Init ==
    /\ provider = Provider_default
    /\ NoCall

InitProvider ==
    /\ provider \in { Provider_new(f) : f \in { "None" } \cup EndpointFns }
                    \cup { Provider_with_client("custom_client", f) :
                             f \in { "None" } \cup EndpointFns }
    /\ NoCall

----------------------------------------------------------------------------
(* batch_chunk_by *)

\* if targets.is_empty() || chunk_size == 0
batch_chunk_by_invalid_no_empty_check(D, c) == c = 0
batch_chunk_by_invalid(D, c) == Len(D) = 0 \/ c = 0

\* validation, chunk planning and request construction of batch_chunk_by,
\* up to the creation of the chunk futures handed to join_all
batch_chunk_by_call(D, c) ==
    /\ pc = "idle"
    /\ provider' = provider
    /\ op' = "batch_chunk_by"
    /\ targets' = D
    /\ chunk_size' = c
    /\ out_of_order' = FALSE
    /\ exchanges' = 0
    /\ IF batch_chunk_by_invalid(D, c)
       THEN /\ ret' = Err(InvalidRequest)
            /\ rpc_requests' = <<>>
            /\ tasks' = <<>>
            /\ pc' = "returned"
       ELSE LET built == build_chunk_requests(D, c)
            IN  IF ~built.ok
                THEN /\ ret' = Err(built.err)
                     /\ rpc_requests' = <<>>
                     /\ tasks' = <<>>
                     /\ pc' = "returned"
                ELSE /\ ret' = NoRet
                     /\ rpc_requests' = built.val
                     /\ tasks' = [i \in 1..Len(built.val) |->
                                    BuiltTask(request_builder(chunks(D, c)[i][1]))]
                     /\ pc' = "built"

\* RequestBuilder::send executes the request with the client of the builder
RequestBuilder_send_client(task) == task.builder_client

join_all_started_first_only(ts) == { 1 }

\* which chunk futures the first poll of join_all starts
join_all_started(ts) == 1..Len(ts)

\* first poll of join_all: every chunk future is polled and calls send()
join_all_first_poll ==
    /\ pc = "built"
    /\ tasks' = [i \in 1..Len(tasks) |->
                    IF i \in join_all_started(tasks)
                    THEN [tasks[i] EXCEPT !.st = "InFlight",
                                          !.client = RequestBuilder_send_client(tasks[i])]
                    ELSE tasks[i]]
    /\ exchanges' = exchanges + Cardinality(join_all_started(tasks))
    /\ pc' = "join"
    /\ UNCHANGED <<provider, op, targets, chunk_size, rpc_requests, out_of_order, ret>>

\* task i completes while a task of lower index has not completed yet
overtakes(ts, i) == \E j \in 1..(i - 1) : ts[j].st \notin { "Ok", "Err" }

\* request.send().await? of chunk task i: a transport error ends the task,
\* a response with any status lets it go on to read the body
send_resolve(i) ==
    /\ pc = "join"
    /\ i \in 1..Len(tasks)
    /\ tasks[i].st = "InFlight"
    /\ \/ /\ tasks' = [tasks EXCEPT ![i] =
                         [@ EXCEPT !.st = "Err",
                                   !.err = From_reqwest_Error("error sending request")]]
          /\ out_of_order' = (out_of_order \/ overtakes(tasks, i))
       \/ \E status \in Statuses :
             /\ tasks' = [tasks EXCEPT ![i] = [@ EXCEPT !.st = "Decoding", !.status = status]]
             /\ out_of_order' = out_of_order
    /\ UNCHANGED <<provider, pc, op, targets, chunk_size, rpc_requests, exchanges, ret>>

\* response.json::<Vec<JsonRpcResult<U>>>().await? of chunk task i
json_resolve(i) ==
    /\ pc = "join"
    /\ i \in 1..Len(tasks)
    /\ tasks[i].st = "Decoding"
    /\ \E bytes \in ServerBodies(rpc_requests[i]) :
           LET decoded == Response_json(bytes)
           IN  tasks' = [tasks EXCEPT ![i] =
                          IF decoded.ok
                          THEN [@ EXCEPT !.st = "Ok", !.bytes = bytes, !.body = decoded.val]
                          ELSE [@ EXCEPT !.st = "Err", !.bytes = bytes,
                                         !.err = From_reqwest_Error(decoded.err)]]
    /\ out_of_order' = (out_of_order \/ overtakes(tasks, i))
    /\ UNCHANGED <<provider, pc, op, targets, chunk_size, rpc_requests, exchanges, ret>>

join_all_ready_all_ok(ts) == \A i \in 1..Len(ts) : ts[i].st = "Ok"

try_join_all_ready(ts) ==
    \/ \E i \in 1..Len(ts) : ts[i].st = "Err"
    \/ \A i \in 1..Len(ts) : ts[i].st \in { "Ok", "Err" }

\* join_all is ready when every chunk future has produced its output
join_all_ready(ts) == \A i \in 1..Len(ts) : ts[i].st \in { "Ok", "Err" }

\* output of join_all: the task outputs in the order of the input futures
join_all(ts) == [i \in 1..Len(ts) |-> ts[i]]

RECURSIVE collect_prepend(_, _, _, _)
collect_prepend(bodies, i, results, error) ==
    IF i > Len(bodies) THEN [results |-> results, error |-> error]
    ELSE IF bodies[i].st = "Ok"
    THEN collect_prepend(bodies, i + 1, bodies[i].body \o results, error)
    ELSE collect_prepend(bodies, i + 1, results, [some |-> TRUE, err |-> bodies[i].err])

\* the collection loop over bodies: results.extend(body) / error = Some(err)
RECURSIVE collect(_, _, _, _)
collect(bodies, i, results, error) ==
    IF i > Len(bodies) THEN [results |-> results, error |-> error]
    ELSE IF bodies[i].st = "Ok"
    THEN collect(bodies, i + 1, results \o bodies[i].body, error)
    ELSE collect(bodies, i + 1, results, [some |-> TRUE, err |-> bodies[i].err])

aggregate_partial(bodies) ==
    LET c == collect(bodies, 1, <<>>, [some |-> FALSE, err |-> NoError])
    IN  IF c.error.some /\ c.results = <<>> THEN Err(c.error.err) ELSE Ok(c.results)

\* the value batch_chunk_by returns once join_all has produced bodies
aggregate(bodies) ==
    LET c == collect(bodies, 1, <<>>, [some |-> FALSE, err |-> NoError])
    IN  IF c.error.some THEN Err(c.error.err) ELSE Ok(c.results)

\* join_all(..).await completes; the results are collected and returned
join_return ==
    /\ pc = "join"
    /\ join_all_ready(tasks)
    /\ ret' = aggregate(join_all(tasks))
    /\ pc' = "returned"
    /\ UNCHANGED <<provider, op, targets, chunk_size, rpc_requests, tasks, out_of_order, exchanges>>

----------------------------------------------------------------------------
(* batch *)

\* if targets.is_empty()
batch_invalid(D) == Len(D) = 0

\* validation and request construction of batch, up to client.execute
batch_call(D) ==
    /\ pc = "idle"
    /\ provider' = provider
    /\ op' = "batch"
    /\ targets' = D
    /\ chunk_size' = 0
    /\ out_of_order' = FALSE
    /\ IF batch_invalid(D)
       THEN /\ ret' = Err(InvalidRequest)
            /\ rpc_requests' = <<>>
            /\ tasks' = <<>>
            /\ exchanges' = 0
            /\ pc' = "returned"
       ELSE LET rb == request_builder(D[1])
                body == HTTPBody_from_array(batch_payload(D))
            IN  IF ~rb.ok
                THEN /\ ret' = Err(From_crate_Error(rb.err))
                     /\ rpc_requests' = <<>>
                     /\ tasks' = <<>>
                     /\ exchanges' = 0
                     /\ pc' = "returned"
                ELSE /\ ret' = NoRet
                     /\ rpc_requests' = <<body.inner>>
                     /\ tasks' = <<[BuiltTask(rb) EXCEPT !.st = "InFlight",
                                                           !.client = provider.client]>>
                     /\ exchanges' = 1
                     /\ pc' = "batch_exec"

\* self.client.execute(final_request).await.map_err(..)?
batch_execute_resolve ==
    /\ pc = "batch_exec"
    /\ \/ LET e == [code |-> -32603,
                    message |-> <<"Batch request execution failed", "error sending request">>]
          IN  /\ tasks' = <<[tasks[1] EXCEPT !.st = "Err", !.err = e]>>
              /\ out_of_order' = FALSE
              /\ ret' = Err(e)
              /\ pc' = "returned"
       \/ \E status \in Statuses :
             /\ tasks' = <<[tasks[1] EXCEPT !.st = "Decoding", !.status = status]>>
             /\ out_of_order' = out_of_order
             /\ ret' = ret
             /\ pc' = "batch_json"
    /\ UNCHANGED <<provider, op, targets, chunk_size, rpc_requests, exchanges>>

\* response.json::<Vec<JsonRpcResult<U>>>().await.map_err(..)?; Ok(response_body)
batch_json_resolve ==
    /\ pc = "batch_json"
    /\ \E bytes \in ServerBodies(rpc_requests[1]) :
           LET decoded == Response_json(bytes)
               e == [code |-> -32700,
                     message |-> <<"Failed to parse batch JSON response", decoded.err>>]
           IN  IF decoded.ok
               THEN /\ tasks' = <<[tasks[1] EXCEPT !.st = "Ok", !.bytes = bytes,
                                                    !.body = decoded.val]>>
                    /\ ret' = Ok(decoded.val)
               ELSE /\ tasks' = <<[tasks[1] EXCEPT !.st = "Err", !.bytes = bytes, !.err = e]>>
                    /\ ret' = Err(e)
    /\ out_of_order' = FALSE
    /\ pc' = "returned"
    /\ UNCHANGED <<provider, op, targets, chunk_size, rpc_requests, exchanges>>

----------------------------------------------------------------------------
(* request, request_json *)

\* error.rs: enum Error, in the shape of the returned errors
Error_Reqwest(text) == [code |-> 0, message |-> <<"Reqwest HTTP error", text>>]
Error_SerdeJson(text) ==
    [code |-> 0, message |-> <<"JSON serialization/deserialization error", text>>]
Error_from(err) ==
    IF err.kind = "Reqwest" THEN Error_Reqwest(err.text) ELSE Error_SerdeJson(err.text)

\* the body() of a descriptor handed to request: one envelope with id 1
Target_body(target) == <<JsonRpcRequest_new(target.method_name, <<>>, 1)>>

\* self.request_builder(&target)?.build()? and the start of
\* self.client.execute(req), for request (o = "request") and for the
\* self.request(target) at the head of request_json (o = "request_json")
request_start(target, o) ==
    /\ pc = "idle"
    /\ provider' = provider
    /\ op' = o
    /\ targets' = <<target>>
    /\ chunk_size' = 0
    /\ out_of_order' = FALSE
    /\ LET rb == request_builder(target)
       IN  IF ~rb.ok
           THEN /\ ret' = Err(Error_from(rb.err))
                /\ rpc_requests' = <<>>
                /\ tasks' = <<>>
                /\ exchanges' = 0
                /\ pc' = "returned"
           ELSE /\ ret' = NoRet
                /\ rpc_requests' = <<Target_body(target)>>
                /\ tasks' = <<[BuiltTask(rb) EXCEPT !.st = "InFlight",
                                                      !.client = provider.client]>>
                /\ exchanges' = 1
                /\ pc' = "request_exec"

request_call(target) == request_start(target, "request")
request_json_call(target) == request_start(target, "request_json")

error_for_status_never(status) == FALSE

\* Response::error_for_status: an error for a client or server error status
error_for_status(status) == status >= 400 /\ status <= 599

\* self.client.execute(req).await.map_err(Error::from); request returns the
\* response, request_json goes on with response.error_for_status()?
request_execute_resolve ==
    /\ pc = "request_exec"
    /\ \/ LET e == Error_Reqwest("error sending request")
          IN  /\ tasks' = <<[tasks[1] EXCEPT !.st = "Err", !.err = e]>>
              /\ ret' = Err(e)
              /\ pc' = "returned"
       \/ \E status \in RequestStatuses :
             IF op = "request"
             THEN /\ tasks' = <<[tasks[1] EXCEPT !.st = "Ok", !.status = status]>>
                  /\ ret' = Ok(<<>>)
                  /\ pc' = "returned"
             ELSE IF error_for_status(status)
             THEN LET e == Error_Reqwest("HTTP status client or server error")
                  IN  /\ tasks' = <<[tasks[1] EXCEPT !.st = "Err", !.status = status,
                                                       !.err = e]>>
                      /\ ret' = Err(e)
                      /\ pc' = "returned"
             ELSE /\ tasks' = <<[tasks[1] EXCEPT !.st = "Decoding", !.status = status]>>
                  /\ ret' = ret
                  /\ pc' = "request_json_body"
    /\ UNCHANGED <<provider, op, targets, chunk_size, rpc_requests, out_of_order, exchanges>>

\* let body: U = response.json().await?; Ok(body)
request_json_resolve ==
    /\ pc = "request_json_body"
    /\ \E bytes \in ServerBodies(rpc_requests[1]) :
           LET decoded == Response_json(bytes)
               e == Error_Reqwest(decoded.err)
           IN  IF decoded.ok
               THEN /\ tasks' = <<[tasks[1] EXCEPT !.st = "Ok", !.bytes = bytes,
                                                    !.body = decoded.val]>>
                    /\ ret' = Ok(decoded.val)
               ELSE /\ tasks' = <<[tasks[1] EXCEPT !.st = "Err", !.bytes = bytes, !.err = e]>>
                    /\ ret' = Err(e)
    /\ pc' = "returned"
    /\ UNCHANGED <<provider, op, targets, chunk_size, rpc_requests, out_of_order, exchanges>>

----------------------------------------------------------------------------

\* the caller has taken the returned value; the provider is ready for the
\* next call (a call keeps no state in the Provider)
call_done ==
    /\ pc = "returned"
    /\ provider' = provider
    /\ pc' = "idle"
    /\ op' = "none"
    /\ targets' = <<>>
    /\ chunk_size' = 0
    /\ rpc_requests' = <<>>
    /\ tasks' = <<>>
    /\ out_of_order' = FALSE
    /\ exchanges' = 0
    /\ ret' = NoRet

Next ==
    \/ \E D \in TargetSeqs, c \in ChunkSizes : batch_chunk_by_call(D, c)
    \/ join_all_first_poll
    \/ \E i \in 1..MaxLen : send_resolve(i)
    \/ \E i \in 1..MaxLen : json_resolve(i)
    \/ join_return
    \/ \E D \in TargetSeqs : batch_call(D)
    \/ batch_execute_resolve
    \/ batch_json_resolve
    \/ call_done

Spec == Init /\ [][Next]_vars

\* the batches handed to a provider built by new / with_client
ProviderSeqs == SeqsUpTo({ EthereumTarget("eth_chainId", TRUE) }, MaxLen)

NextProvider ==
    \/ \E t \in RequestTargets : request_call(t)
    \/ \E t \in RequestTargets : request_json_call(t)
    \/ request_execute_resolve
    \/ request_json_resolve
    \/ \E D \in ProviderSeqs, c \in ChunkSizes : batch_chunk_by_call(D, c)
    \/ join_all_first_poll
    \/ \E i \in 1..MaxLen : send_resolve(i)
    \/ \E i \in 1..MaxLen : json_resolve(i)
    \/ join_return
    \/ \E D \in ProviderSeqs : batch_call(D)
    \/ batch_execute_resolve
    \/ batch_json_resolve
    \/ call_done

SpecProvider == InitProvider /\ [][NextProvider]_vars

\* batch_chunk_by alone, with the scheduling its awaits rely on: the executor
\* polls the future of the call whenever it can make progress (first poll of
\* join_all, return once join_all is ready), and every exchange and every
\* body read that was started eventually completes
NextJoin ==
    \/ \E D \in ProviderSeqs, c \in ChunkSizes : batch_chunk_by_call(D, c)
    \/ join_all_first_poll
    \/ \E i \in 1..MaxLen : send_resolve(i)
    \/ \E i \in 1..MaxLen : json_resolve(i)
    \/ join_return
    \/ call_done

SpecJoin ==
    /\ Init
    /\ [][NextJoin]_vars
    /\ WF_vars(join_all_first_poll)
    /\ \A i \in 1..MaxLen : WF_vars(send_resolve(i))
    /\ \A i \in 1..MaxLen : WF_vars(json_resolve(i))
    /\ WF_vars(join_return)

----------------------------------------------------------------------------
(* Properties *)

Completed(t) == t.st \in { "Ok", "Err" }
ChunkedReturned == pc = "returned" /\ op = "batch_chunk_by"
\* the call went past validation and request construction
ChunkedDispatched == op = "batch_chunk_by" /\ rpc_requests # <<>>
AllOk == \A i \in 1..Len(tasks) : tasks[i].st = "Ok"
Failed == { i \in 1..Len(tasks) : tasks[i].st = "Err" }

RECURSIVE Flatten(_)
Flatten(ss) == IF Len(ss) = 0 THEN <<>> ELSE Head(ss) \o Flatten(Tail(ss))

CeilDiv(n, c) == (n + c - 1) \div c

\* C1: when at least one chunk of a batch_chunk_by call fails (exchange or
\* decode), the call returns Err and the caller receives no result element,
\* whatever the other chunks produced and in whatever order they completed.
C1_AllOrNothing ==
    (ChunkedReturned /\ Failed # {}) => (ret.kind = "Err" /\ ret.val = <<>>)

\* a failed chunk next to a chunk that succeeded with data, completed out of order
C1_Witness ==
    /\ ChunkedReturned
    /\ out_of_order
    /\ Failed # {}
    /\ \E i \in 1..Len(tasks) : tasks[i].st = "Ok" /\ tasks[i].body # <<>>
    /\ ret.kind = "Err"

\* the i-th element of the returned sequence answers the i-th descriptor
AnswersInInputOrder ==
    /\ ret.kind = "Ok"
    /\ Len(ret.val) = Len(targets)
    /\ \A p \in 1..Len(ret.val) :
          /\ ret.val[p].id = p
          /\ ret.val[p].tag = "Value" => ret.val[p].result = targets[p].method_name

\* the response of chunk i holds one envelope per request envelope of the
\* chunk, in request order
ResponseInRequestOrder(i) ==
    /\ Len(tasks[i].body) = Len(rpc_requests[i])
    /\ \A j \in 1..Len(tasks[i].body) : tasks[i].body[j].id = rpc_requests[i][j].id

\* C2 as stated: when all chunk exchanges of batch_chunk_by(D, c) succeed, the
\* returned sequence has len(D) elements and its i-th element is the result
\* for the i-th descriptor.
C2_Original ==
    (ChunkedReturned /\ ChunkedDispatched /\ AllOk) => AnswersInInputOrder

\* C2 amended: when all chunk exchanges succeed and every chunk response holds
\* one envelope per request envelope of its chunk in request order, the
\* returned sequence has len(D) elements and its i-th element is the result
\* for the i-th descriptor.
C2_LengthAndOrder ==
    (/\ ChunkedReturned /\ ChunkedDispatched /\ AllOk
     /\ \A i \in 1..Len(tasks) : ResponseInRequestOrder(i))
    => AnswersInInputOrder

\* several chunks, the last one shorter, all answered in order, completed out of order
C2_Witness ==
    /\ ChunkedReturned /\ AllOk
    /\ Len(tasks) >= 2
    /\ Len(targets) % chunk_size # 0
    /\ \A i \in 1..Len(tasks) : ResponseInRequestOrder(i)
    /\ out_of_order
    /\ \E p, q \in 1..Len(targets) : targets[p] # targets[q]
    /\ Len(ret.val) = Len(targets)

\* C3: the correlation id of position k of chunk chunkIndex is
\* chunkIndex*c + k + 1; the ids of all chunks together are pairwise distinct
\* and are 1..len(D) in input order.
C3_GlobalIds ==
    ChunkedDispatched =>
        /\ \A i \in 1..Len(rpc_requests) : \A k \in 1..Len(rpc_requests[i]) :
              rpc_requests[i][k].id = (i - 1) * chunk_size + (k - 1) + 1
        /\ LET all == Flatten(rpc_requests)
           IN  /\ Len(all) = Len(targets)
               /\ \A p \in 1..Len(all) : all[p].id = p
               /\ \A p, q \in 1..Len(all) : p # q => all[p].id # all[q].id

\* a second chunk whose ids do not restart at 1
C3_Witness ==
    /\ ChunkedDispatched
    /\ Len(rpc_requests) >= 2
    /\ chunk_size >= 2
    /\ rpc_requests[2][1].id = chunk_size + 1

\* C4: D is split into ceil(len(D)/c) contiguous non-empty chunks of at most c
\* descriptors whose request bodies, concatenated in chunk-index order, list
\* the descriptors of D once each in the original order; planning (D, c)
\* again gives the same chunk boundaries.
C4_Partition ==
    ChunkedDispatched =>
        /\ Len(rpc_requests) = CeilDiv(Len(targets), chunk_size)
        /\ \A i \in 1..Len(rpc_requests) :
              Len(rpc_requests[i]) >= 1 /\ Len(rpc_requests[i]) <= chunk_size
        /\ LET all == Flatten(rpc_requests)
           IN  /\ Len(all) = Len(targets)
               /\ \A p \in 1..Len(all) : all[p].method = targets[p].method_name
        /\ LET again == chunks(targets, chunk_size)
           IN  /\ Len(again) = Len(rpc_requests)
               /\ \A i \in 1..Len(again) : Len(again[i]) = Len(rpc_requests[i])

\* a plan with a shorter last chunk over distinct descriptors
C4_Witness ==
    /\ ChunkedDispatched
    /\ Len(targets) = 3 /\ chunk_size = 2
    /\ Len(rpc_requests) = 2
    /\ Len(rpc_requests[2]) = 1
    /\ targets[1] # targets[2]

\* C5: batch with no descriptor, and batch_chunk_by with no descriptor or
\* chunk_size 0, return InvalidRequest (-32600, "Invalid Request") and start
\* no transport exchange.
C5_InvalidRequest ==
    (/\ pc # "idle"
     /\ \/ op = "batch" /\ targets = <<>>
        \/ op = "batch_chunk_by" /\ (targets = <<>> \/ chunk_size = 0))
    => /\ pc = "returned"
       /\ ret.kind = "Err"
       /\ ret.err.code = -32600
       /\ ret.err.message[1] = "Invalid Request"
       /\ exchanges = 0
       /\ \A i \in 1..Len(tasks) : tasks[i].st = "Planned"

\* a call with descriptors and chunk_size 0 was rejected
C5_Witness ==
    /\ ChunkedReturned
    /\ targets # <<>> /\ chunk_size = 0
    /\ ret = Err(InvalidRequest)
    /\ exchanges = 0

\* a batch call without descriptors was rejected
C5_WitnessBatch ==
    /\ pc = "returned" /\ op = "batch" /\ targets = <<>>
    /\ ret = Err(InvalidRequest)

\* C6: when every chunk succeeds, the returned sequence is the concatenation
\* of the chunk response sequences in chunk-index order, whatever the order in
\* which the chunk tasks completed.
C6_ChunkOrderConcat ==
    (ChunkedReturned /\ ChunkedDispatched /\ AllOk) =>
        /\ ret.kind = "Ok"
        /\ ret.val = Flatten([i \in 1..Len(tasks) |-> tasks[i].body])

\* two chunks with different non-empty responses, the second completed first
C6_Witness ==
    /\ ChunkedReturned /\ AllOk
    /\ out_of_order
    /\ Len(tasks) >= 2
    /\ tasks[1].body # <<>> /\ tasks[2].body # <<>>
    /\ tasks[1].body # tasks[2].body
    /\ ret.kind = "Ok"

\* C7: after validation and request construction the exchange of every chunk
\* is started, a failed chunk does not keep a sibling from completing its own
\* exchange, and the call returns only after every chunk task has completed.
C7_JoinNotRace ==
    ChunkedDispatched =>
        /\ pc \in { "join", "returned" } =>
              /\ exchanges = Len(rpc_requests)
              /\ \A i \in 1..Len(tasks) : tasks[i].st # "Planned"
        /\ pc = "join" =>
              /\ ret = NoRet
              /\ \A i \in 1..Len(tasks) :
                    /\ tasks[i].st = "InFlight" => ENABLED send_resolve(i)
                    /\ tasks[i].st = "Decoding" => ENABLED json_resolve(i)
        /\ pc = "returned" => \A i \in 1..Len(tasks) : Completed(tasks[i])

\* a chunk failed first, its sibling completed its exchange afterwards, and
\* the call returned
C7_Witness ==
    /\ ChunkedReturned
    /\ Len(tasks) >= 2
    /\ tasks[2].st = "Err" /\ tasks[1].st = "Ok" /\ tasks[1].body # <<>>
    /\ out_of_order
    /\ exchanges = Len(tasks)

\* position in the flat result of element j of chunk i
RECURSIVE Offset(_)
Offset(i) == IF i <= 1 THEN 0 ELSE Offset(i - 1) + Len(tasks[i - 1].body)

IsAppError(obj) == obj.hasError /\ ~obj.hasResult

\* the exchange of task i was transported and its body is a JSON array of
\* result / error envelopes
WellFormedExchange(i) ==
    /\ tasks[i].status # 0
    /\ tasks[i].bytes.json
    /\ \A j \in 1..Len(tasks[i].bytes.items) :
          tasks[i].bytes.items[j].hasResult \/ tasks[i].bytes.items[j].hasError

\* C8: a per-item application error inside an exchange that was transported
\* and decoded successfully is an Error element at its position of the
\* result of batch / batch_chunk_by; the call does not return Err and every
\* Value element of every chunk is still returned.
C8_PerItemError ==
    (pc = "returned" /\ rpc_requests # <<>> /\ \A i \in 1..Len(tasks) : WellFormedExchange(i)) =>
        /\ AllOk
        /\ ret.kind = "Ok"
        /\ Len(ret.val) = Offset(Len(tasks) + 1)
        /\ \A i \in 1..Len(tasks) : \A j \in 1..Len(tasks[i].bytes.items) :
              LET obj == tasks[i].bytes.items[j]
                  el == ret.val[Offset(i) + j]
              IN  /\ el.id = obj.id
                  /\ IsAppError(obj) => el.tag = "Error" /\ el.error = obj.error
                  /\ ~IsAppError(obj) => el.tag = "Value" /\ el.result = obj.result

\* a chunked call returned Ok with an Error element between Value elements of
\* its own chunk and of another chunk
C8_Witness ==
    /\ ChunkedReturned /\ AllOk
    /\ Len(tasks) >= 2
    /\ ret.kind = "Ok"
    /\ Len(ret.val) = 3
    /\ ret.val[1].tag = "Value" /\ ret.val[2].tag = "Error" /\ ret.val[3].tag = "Value"

\* a batch call returned Ok with an Error element
C8_WitnessBatch ==
    /\ pc = "returned" /\ op = "batch"
    /\ ret.kind = "Ok"
    /\ \E p \in 1..Len(ret.val) : ret.val[p].tag = "Error"

\* C9: when two or more chunks fail, the error returned is the error of the
\* first failure met when the chunk results are collected, not of a later one.
C9_FirstFailure ==
    (ChunkedReturned /\ Cardinality(Failed) >= 2) =>
        ret.err = tasks[CHOOSE i \in Failed : \A j \in Failed : i <= j].err

\* C10: a chunk exchange that completes with a non-success HTTP status makes
\* the whole batch_chunk_by call return Err, whatever the body contains.
C10_NonSuccessStatus ==
    (ChunkedReturned /\ \E i \in 1..Len(tasks) : tasks[i].status = 500) => ret.kind = "Err"

\* the request of some chunk of the batch_chunk_by call cannot be built: the
\* body() of the first descriptor of the chunk fails
ChunkConstructionFails ==
    /\ op = "batch_chunk_by" /\ targets # <<>> /\ chunk_size > 0
    /\ \E i \in 1..CeilDiv(Len(targets), chunk_size) :
          ~targets[(i - 1) * chunk_size + 1].bodyOk

\* the request of the batch call cannot be built
BatchConstructionFails ==
    op = "batch" /\ targets # <<>> /\ ~targets[1].bodyOk

C11_WitnessBatch ==
    /\ pc = "returned" /\ BatchConstructionFails
    /\ ret.kind = "Err" /\ exchanges = 0

\* one exchange whose body lists the descriptors in input order with ids
\* 1..len(D); on success the decoded response is returned as the server sent it
BatchOneExchangeUnmodified ==
    /\ rpc_requests # <<>>
    /\ Len(rpc_requests) = 1 /\ Len(tasks) = 1 /\ exchanges = 1
    /\ Len(rpc_requests[1]) = Len(targets)
    /\ \A p \in 1..Len(targets) :
          /\ rpc_requests[1][p].id = p
          /\ rpc_requests[1][p].method = targets[p].method_name
          /\ rpc_requests[1][p].jsonrpc = "2.0"
    /\ (pc = "returned" /\ tasks[1].st = "Ok") =>
          /\ ret.kind = "Ok"
          /\ Len(ret.val) = Len(tasks[1].bytes.items)
          /\ \A j \in 1..Len(ret.val) :
                /\ ret.val[j].id = tasks[1].bytes.items[j].id
                /\ ret.val[j].tag = IF tasks[1].bytes.items[j].hasResult THEN "Value" ELSE "Error"

RequestJsonContract(pass) ==
    (op = "request_json" /\ tasks # <<>>) =>
        /\ pc = "request_json_body" => tasks[1].status \in pass
        /\ tasks[1].status \notin pass =>
              tasks[1].st \in { "InFlight", "Err" } /\ tasks[1].body = <<>>
        /\ pc = "returned" =>
              /\ ret.kind \in { "Ok", "Err" }
              /\ ret.kind = "Ok" <=>
                    /\ tasks[1].status \in pass
                    /\ Response_json(tasks[1].bytes).ok
              /\ ret.kind = "Ok" => ret.val = Response_json(tasks[1].bytes).val
              /\ ret.kind = "Err" => ret.err = tasks[1].err /\ ret.val = <<>>

C13_WitnessStatus ==
    /\ pc = "returned" /\ op = "request_json" /\ tasks # <<>>
    /\ ret.kind = "Err" /\ tasks[1].status = 404 /\ tasks[1].bytes = NoBytes

C13_WitnessDecode ==
    /\ pc = "returned" /\ op = "request_json" /\ tasks # <<>>
    /\ ret.kind = "Err" /\ tasks[1].status = 200 /\ tasks[1].st = "Err"

\* the descriptor whose request_builder made the builder of exchange i
BuilderTarget(i) ==
    IF op = "batch_chunk_by" THEN targets[(i - 1) * chunk_size + 1] ELSE targets[1]

\* C14: the URL of every request built is base_url(target) followed by
\* path(target) when the provider has no endpoint_fn, and exactly
\* endpoint_fn(target), replacing base URL and path, when one is configured
\* (with the values of test_test_endpoint_closure).
C14_RequestUrl ==
    \A i \in 1..Len(tasks) :
        LET t == BuilderTarget(i)
        IN  /\ provider.endpoint_fn = "None" => tasks[i].url = t.base_url \o t.path
            /\ provider.endpoint_fn # "None" =>
                  tasks[i].url = endpoint_fn_call(provider.endpoint_fn, t)
            /\ (provider.endpoint_fn = "None" /\ t.name = "Get") =>
                  tasks[i].url = "https://httpbin.org/get?ts=1728044812"
            /\ (provider.endpoint_fn = "plain_httpbin" /\ t.name = "Post") =>
                  tasks[i].url = "http://httpbin.org"

C14_Witness ==
    /\ op = "request" /\ tasks # <<>>
    /\ provider.endpoint_fn = "plain_httpbin" /\ targets[1].name = "Post"
    /\ tasks[1].url = "http://httpbin.org"

C14_WitnessDefault ==
    /\ op = "request" /\ tasks # <<>>
    /\ provider.endpoint_fn = "None" /\ targets[1].name = "Get"
    /\ tasks[1].url = "https://httpbin.org/get?ts=1728044812"

\* Planned = 0, InFlight = 1 (sending, or reading the body), Completed = 2
Phase(t) ==
    CASE t.st = "Planned" -> 0
      [] t.st \in { "InFlight", "Decoding" } -> 1
      [] t.st \in { "Ok", "Err" } -> 2

NumChunks == CeilDiv(Len(targets), chunk_size)

\* one chunk task per chunk, each started once the join has begun and
\* completed once the call has returned
ChunkExchangeCount ==
    /\ Len(tasks) = NumChunks
    /\ pc = "built" => exchanges = 0 /\ \A i \in 1..Len(tasks) : Phase(tasks[i]) = 0
    /\ pc \in { "join", "returned" } =>
          exchanges = NumChunks /\ \A i \in 1..Len(tasks) : Phase(tasks[i]) >= 1
    /\ pc = "returned" => \A i \in 1..Len(tasks) : Phase(tasks[i]) = 2

\* a step of a call moves no chunk backwards or past a state, changes no
\* completed chunk, and starts one exchange for each chunk leaving Planned
ChunkLifecycleStep ==
    /\ Len(tasks') = Len(tasks)
    /\ \A i \in 1..Len(tasks) :
          /\ Phase(tasks'[i]) \in { Phase(tasks[i]), Phase(tasks[i]) + 1 }
          /\ Phase(tasks[i]) = 2 => tasks'[i] = tasks[i]
    /\ exchanges' = exchanges +
          Cardinality({ i \in 1..Len(tasks) : Phase(tasks[i]) = 0 /\ Phase(tasks'[i]) = 1 })

\* C15 as stated: within one batch_chunk_by call (valid arguments) every
\* chunk moves Planned -> InFlight -> Completed(Ok | Err) exactly once and
\* never leaves Completed; no chunk is exchanged twice or retried, and the
\* number of exchanges started equals the number of chunks.
C15_Original ==
    [][ (op' = "batch_chunk_by" /\ targets' # <<>> /\ chunk_size' > 0) =>
            /\ ChunkExchangeCount'
            /\ op = "batch_chunk_by" => ChunkLifecycleStep ]_vars

\* C15 amended: the same, for a batch_chunk_by call whose chunk requests
\* were all built (no descriptor heading a chunk fails in body()).
C15_ChunkLifecycle ==
    [][ (op' = "batch_chunk_by" /\ rpc_requests' # <<>>) =>
            /\ ChunkExchangeCount'
            /\ op = "batch_chunk_by" => ChunkLifecycleStep ]_vars

C15_Witness ==
    /\ ChunkedReturned /\ Len(tasks) = 3 /\ exchanges = 3
    /\ tasks[1].st = "Err" /\ tasks[2].st = "Ok" /\ tasks[3].st = "Err"
    /\ ret.kind = "Err"

\* the transport outcome of the single exchange of a call, read off its task
Outcome(task) ==
    CASE task.st = "Ok" -> "success"
      [] task.st = "Err" /\ task.status = 0 -> "transport failure"
      [] task.st = "Err" /\ task.status # 0 -> "undecodable body"
      [] OTHER -> "pending"

\* what batch returns for a transport outcome (map_err of execute and of
\* json, Ok(response_body))
batch_return(outcome, bytes) ==
    CASE outcome = "transport failure" ->
            Err([code |-> -32603,
                 message |-> <<"Batch request execution failed", "error sending request">>])
      [] outcome = "undecodable body" ->
            Err([code |-> -32700,
                 message |-> <<"Failed to parse batch JSON response", Response_json(bytes).err>>])
      [] outcome = "success" -> Ok(Response_json(bytes).val)

\* what batch_chunk_by returns for the same outcome of its only chunk (the
\* two `?` of the chunk future, then the collection loop)
batch_chunk_by_return(outcome, bytes) ==
    CASE outcome = "transport failure" ->
            aggregate(<<[PlannedTask EXCEPT !.st = "Err",
                            !.err = From_reqwest_Error("error sending request")]>>)
      [] outcome = "undecodable body" ->
            aggregate(<<[PlannedTask EXCEPT !.st = "Err",
                            !.err = From_reqwest_Error(Response_json(bytes).err)]>>)
      [] outcome = "success" ->
            aggregate(<<[PlannedTask EXCEPT !.st = "Ok", !.body = Response_json(bytes).val]>>)

\* the two operators above are what the calls of the model return
ReturnsAsModelled ==
    (pc = "returned" /\ rpc_requests # <<>>) =>
        /\ op = "batch" => ret = batch_return(Outcome(tasks[1]), tasks[1].bytes)
        /\ (op = "batch_chunk_by" /\ chunk_size >= Len(targets)) =>
              ret = batch_chunk_by_return(Outcome(tasks[1]), tasks[1].bytes)

SameResultOrCode(a, b) ==
    a.kind = b.kind /\ a.val = b.val /\ a.err.code = b.err.code

\* C16: batch(D) and batch_chunk_by(D, c) with c >= len(D) are equivalent
\* for non-empty D: the same single wire body, and for the same transport
\* outcome the same result sequence or the same error code.
C16_BatchEquivalence ==
    /\ (op = "batch" /\ pc = "returned" /\ rpc_requests # <<>>) =>
          /\ \A c \in Len(targets)..(MaxChunkSize + 1) :
                build_chunk_requests(targets, c).val = rpc_requests
          /\ SameResultOrCode(ret, batch_chunk_by_return(Outcome(tasks[1]), tasks[1].bytes))
    /\ (op = "batch_chunk_by" /\ chunk_size >= Len(targets)
           /\ pc = "returned" /\ rpc_requests # <<>>) =>
          /\ rpc_requests = <<HTTPBody_from_array(batch_payload(targets)).inner>>
          /\ SameResultOrCode(ret, batch_return(Outcome(tasks[1]), tasks[1].bytes))

\* the part of C16 that holds: same wire body, and the same result for a
\* success and for a transport failure
C16_SameExceptDecodeError ==
    /\ (op = "batch" /\ pc = "returned" /\ rpc_requests # <<>>) =>
          /\ \A c \in Len(targets)..(MaxChunkSize + 1) :
                build_chunk_requests(targets, c).val = rpc_requests
          /\ Outcome(tasks[1]) # "undecodable body" =>
                SameResultOrCode(ret, batch_chunk_by_return(Outcome(tasks[1]), tasks[1].bytes))
    /\ (op = "batch_chunk_by" /\ chunk_size >= Len(targets)
           /\ pc = "returned" /\ rpc_requests # <<>>) =>
          /\ rpc_requests = <<HTTPBody_from_array(batch_payload(targets)).inner>>
          /\ Outcome(tasks[1]) # "undecodable body" =>
                SameResultOrCode(ret, batch_return(Outcome(tasks[1]), tasks[1].bytes))

\* every exchange started so far was executed by the provider's own client
ThroughOwnClient ==
    \A i \in 1..Len(tasks) : tasks[i].st # "Planned" => tasks[i].client = provider.client

\* C17: every transport exchange issued by request, batch and batch_chunk_by
\* is executed through the provider's own configured client (the one given
\* to with_client, or created by new / default), never through another one.
C17_OwnClient == op \in { "request", "request_json", "batch", "batch_chunk_by" } => ThroughOwnClient

\* the part of C17 that holds: the exchanges of request, request_json and
\* batch go through self.client
C17_OwnClientExceptChunked == op \in { "request", "request_json", "batch" } => ThroughOwnClient

\* a batch_chunk_by call that has built its requests and not yet returned
ChunkedPending == op = "batch_chunk_by" /\ pc \in { "built", "join" }

\* C18: if every chunk exchange and decode of a batch_chunk_by call
\* eventually completes (successfully or with an error), the call eventually
\* returns; once every chunk task has completed nothing but the return of
\* the join is left (the call can return at once).
C18_JoinLiveness ==
    /\ ChunkedPending ~> (pc = "returned" /\ op = "batch_chunk_by")
    /\ []((pc = "join" /\ \A i \in 1..Len(tasks) : Completed(tasks[i]))
            => ENABLED join_return)

C18_Witness ==
    /\ ChunkedReturned /\ Len(tasks) = 3 /\ exchanges = 3
    /\ tasks[1].st = "Ok" /\ tasks[2].st = "Err" /\ tasks[3].st = "Ok"

====
